---- MODULE Spec2Model ----
(***************************************************************************)
(* Backlog.md CLI (src/src/cli.ts): the board pipeline (handleBoardView),  *)
(* the pairwise merge of local and remote task records, id allocation      *)
(* (generateNextId) and the status-grouped plain task list; the board      *)
(* commands while the fetch fails or under an unknown strategy name, the   *)
(* requests of the branch scan, and task create run in two working copies. *)
(*                                                                         *)
(* The modules cli.ts imports from ./core (remote-tasks.ts,                *)
(* cross-branch-tasks.ts) are not part of the source tree at hand; their   *)
(* operators are written from the specification (sections 4.2 - 4.4) and   *)
(* marked as such.                                                         *)
(***************************************************************************)
EXTENDS Integers, Sequences, FiniteSets, TLC

VARIABLES
    config,                 \* result of core.filesystem.loadConfig(): a record or Null
    world,                  \* the task files of the working copy and of every branch
    pc,                     \* position of the running command
    localTasks,             \* handleBoardView: localTasks
    remoteTasks,            \* handleBoardView: remoteTasks
    tasksById,              \* handleBoardView: tasksById (a Map, insertion ordered)
    latestTaskDirectories,  \* handleBoardView: latestTaskDirectories (a Map)
    allTasks,               \* handleBoardView: allTasks (filteredTasks)
    rendered,               \* the call of renderBoardTui (view) or exportKanbanBoardToFile
                            \* (export) and the task list passed to it
    parent,                 \* generateNextId: the parent argument
    failedCall,             \* the version-control call that throws in this run, or "none"
    gitFailed,              \* generateNextId: whether the try block threw
    allIds,                 \* generateNextId: allIds
    newId,                  \* generateNextId: the id returned
    options,                \* the command line of the running command: its arguments
                            \* and options
    printed,                \* task list --plain: the groups written to the console
    command,                \* the board command that runs: "view" or "export"
    branches,               \* generateNextId: branches (result of listAllBranches)
    inFlight,               \* generateNextId: the listFilesInTree calls not yet settled
    procs,                  \* the task create processes of two working copies
    exitCode,               \* process.exitCode, 0 while it is not set
    before,                 \* the stored task files when the command started
    env,                    \* process.env: BACKLOG_EDITOR, VISUAL and EDITOR
    spawned,                \* the argument lists of the Bun.spawn calls
    viewRun                 \* the finished board view run a board export is compared with

boardVars == <<command, world, localTasks, remoteTasks, tasksById, latestTaskDirectories,
               allTasks, rendered>>

idVars == <<parent, failedCall, gitFailed, allIds, newId>>

listVars == <<options, printed>>

scanVars == <<branches, inFlight>>

raceVars == <<procs>>

cmdVars == <<exitCode, before, env, spawned, viewRun>>

vars == <<config, pc, boardVars, idVars, listVars, scanVars, raceVars, cmdVars>>

\* loadConfig() found no configuration
Null == [absent |-> TRUE]

\* generateNextId called without a parent
NoParent == [given |-> FALSE, prefixed |-> FALSE, segs |-> <<>>]

\* no board view has run before the command
NoRun == [ran |-> FALSE]

\* renderBoardTui has not been called
NotRendered == [called |-> FALSE, tasks |-> <<>>]

----------------------------------------------------------------------------
(* Bounds and finite domains                                               *)

MaxTs == 2
Timestamps == 1..MaxTs

\* updatedDate values of task records
Dates == {1, 2}

\* updatedDate values of the two records handed to the conflict resolver
MaxDate == 2
ConflictDates == 1..MaxDate

\* statuses of those records; "Blocked" is in no configured status list
ConflictStatuses == {"To Do", "In Progress", "Done", "Blocked"}

\* task numbers and subtask ordinals of the ids seen by generateNextId
MaxNum == 2

\* number of tasks the task list command finds
MaxTasks == 3

\* statuses of listed tasks: "" is a task without status; "Blocked" and "Later"
\* are in no configured status list
ListStatuses == {"", "To Do", "Done", "Blocked", "Later"}

Assignees == {"@sara"}

ListConfigs ==
    { Null,
      [statuses |-> <<>>, taskResolutionStrategy |-> "most_progressed"],
      [statuses |-> <<"To Do", "Done">>, taskResolutionStrategy |-> "most_progressed"],
      [statuses |-> <<"Done", "To Do">>, taskResolutionStrategy |-> "most_progressed"],
      [statuses |-> <<"Done", "Done">>, taskResolutionStrategy |-> "most_progressed"] }

\* --status and --assignee; "" is an option that was not given
ListOptions == [status : {"", "done"}, assignee : {""} \cup Assignees, plain : {TRUE}]

LocalPlace == "local"
Branches == {"origin/main", "origin/feature"}
Places == {LocalPlace} \cup Branches

BoardIds == {<<1>>, <<2>>}

\* the three location kinds of a task file
Kinds == {"active", "draft", "archived"}

DefaultStatuses == <<"To Do", "In Progress", "Done">>
BoardStatuses == {"To Do", "Done"}

BoardConfigs ==
    { [statuses |-> DefaultStatuses, taskResolutionStrategy |-> "most_progressed"],
      [statuses |-> DefaultStatuses, taskResolutionStrategy |-> "most_recent"] }

ConflictConfigs ==
    BoardConfigs \cup
    { Null,
      [statuses |-> <<"Done", "To Do">>, taskResolutionStrategy |-> "most_progressed"] }

\* ids are written as their numbers: <<2, 1>> is task-2.1; in the worlds of
\* generateNextId only task-2 has subtasks
IdUniverse == {<<n>> : n \in 1..MaxNum} \cup {<<2, n>> : n \in 1..MaxNum}

\* the parent argument: absent, or a top-level id written with or without "task-"
ParentInputs ==
    {NoParent} \cup [given : {TRUE}, prefixed : BOOLEAN, segs : {<<1>>, <<2>>}]

\* where generateNextId's universe keeps task files: the working copy's tasks
\* and drafts, and the three directories of every branch
IdLocations == ({LocalPlace} \X {"active", "draft"}) \cup (Branches \X Kinds)
IdSlots == IdLocations \X IdUniverse
\* a world of generateNextId holds at most three task files
IdSlotSets == {{}} \cup {{a, b, c} : a, b, c \in IdSlots}

MkFile(slot) ==
    [place |-> slot[1][1], id |-> slot[2], kind |-> slot[1][2], ts |-> 1,
     status |-> "To Do", updatedDate |-> 1]

\* a slot is one (place, task id) pair; a world holds at most one file per slot
Slots == Places \X BoardIds
SlotSets == {S \in SUBSET Slots : Cardinality(S) <= Cardinality(Places)}

\* what a file in a slot can look like; the record content of a draft or an
\* archived file is never loaded by the board and is held fixed
CopyShapes ==
    [kind : {"active"}, ts : Timestamps, status : BoardStatuses, updatedDate : Dates]
    \cup [kind : {"draft", "archived"}, ts : Timestamps, status : {"To Do"}, updatedDate : {1}]

MkCopy(slot, shape) ==
    [place |-> slot[1], id |-> slot[2], kind |-> shape.kind, ts |-> shape.ts,
     status |-> shape.status, updatedDate |-> shape.updatedDate]

----------------------------------------------------------------------------
(* Sequence helpers                                                        *)

Range(s) == {s[i] : i \in 1..Len(s)}

\* every listing of the finite set S without repetition
Perms(S) ==
    {s \in [1..Cardinality(S) -> S] : \A i, j \in 1..Cardinality(S) : s[i] = s[j] => i = j}

----------------------------------------------------------------------------
(* Collaborators: local store and version control                          *)

\* TaskWithMetadata of a file
RecordOf(c) ==
    [id |-> c.id, status |-> c.status, updatedDate |-> c.updatedDate,
     source |-> IF c.place = LocalPlace THEN "local" ELSE "remote",
     branch |-> c.place]

\* core.listTasksWithMetadata(): the active tasks of the working copy
LocalActiveCopies(w) == {c \in w : c.place = LocalPlace /\ c.kind = "active"}

\* loadRemoteTasks(core.gitOps): the active tasks found on the branches
RemoteActiveCopies(w) == {c \in w : c.place # LocalPlace /\ c.kind = "active"}

\* what the version-control provider lets a run see: when the remote fetch
\* fails the run degrades to the data of the working copy (specification 7,
\* VersionControlUnavailable)
VisibleWorld(w, failed) ==
    IF failed = "fetch" THEN {c \in w : c.place = LocalPlace} ELSE w

\* loadRemoteTasks(core.gitOps): the records of the remote active tasks; a
\* failed fetch is recovered inside and yields no remote record
loadRemoteTasks(w, failed) ==
    {RecordOf(c) : c \in RemoteActiveCopies(VisibleWorld(w, failed))}

\* one LocationObservation per physical copy of a task file
ObservationOf(c) == [id |-> c.id, branch |-> c.place, kind |-> c.kind, ts |-> c.ts]
Observations(w) == {ObservationOf(c) : c \in w}
ObservationsOfId(w, id) == {o \in Observations(w) : o.id = id}
ObservedIds(w) == {c.id : c \in w}

----------------------------------------------------------------------------
(* ./core/remote-tasks.ts: resolveTaskConflict (specification 4.3)         *)

\* index of a status in statusOrder, -1 when it is not configured
StatusRank(statuses, s) ==
    IF \E i \in 1..Len(statuses) : statuses[i] = s
    THEN (CHOOSE i \in 1..Len(statuses) :
            statuses[i] = s /\ \A j \in 1..(i - 1) : statuses[j] # s) - 1
    ELSE -1

ConfigError == [error |-> "UnknownConflictStrategy"]

MostRecentOf(local, remote) ==
    IF remote.updatedDate > local.updatedDate THEN remote ELSE local

MostProgressedOf(local, remote, statuses) ==
    LET lr == StatusRank(statuses, local.status)
        rr == StatusRank(statuses, remote.status)
    IN  IF rr > lr THEN remote
        ELSE IF lr > rr THEN local
        ELSE MostRecentOf(local, remote)

resolveTaskConflict(local, remote, statuses, strategy) ==
    IF local = remote THEN local
    ELSE IF strategy = "most_progressed" THEN MostProgressedOf(local, remote, statuses)
    ELSE IF strategy = "most_recent" THEN MostRecentOf(local, remote)
    ELSE ConfigError

----------------------------------------------------------------------------
(* ./core/cross-branch-tasks.ts (specification 4.2 and 4.4)                *)

KindRank(k) == CASE k = "active" -> 3 [] k = "draft" -> 2 [] OTHER -> 1
OriginRank(o) == IF o.branch = LocalPlace THEN 1 ELSE 0

\* the tie-break with the kind comparison inverted
AtLeastAsCurrentInverted(o, p) ==
    \/ o.ts > p.ts
    \/ o.ts = p.ts /\ KindRank(o.kind) < KindRank(p.kind)
    \/ o.ts = p.ts /\ KindRank(o.kind) = KindRank(p.kind) /\ OriginRank(o) >= OriginRank(p)

\* o is at least as current as p: later timestamp, then kind, then local origin
AtLeastAsCurrent(o, p) ==
    \/ o.ts > p.ts
    \/ o.ts = p.ts /\ KindRank(o.kind) > KindRank(p.kind)
    \/ o.ts = p.ts /\ KindRank(o.kind) = KindRank(p.kind) /\ OriginRank(o) >= OriginRank(p)

\* taking the first observation found instead of the most current one
FirstObservation(group) == CHOOSE o \in group : TRUE

\* the single most current observation of a non-empty group
LatestObservation(group) ==
    CHOOSE o \in group : \A p \in group : AtLeastAsCurrent(o, p)

\* getLatestTaskStatesForIds(gitOps, taskIds): the resolved location of each of
\* the given ids that has an observation
getLatestTaskStatesForIds(w, taskIds) ==
    [id \in {i \in taskIds : ObservationsOfId(w, i) # {}} |->
        LatestObservation(ObservationsOfId(w, id))]

IsLive(latest, t) == t.id \in DOMAIN latest /\ latest[t.id].kind = "active"

\* filterTasksByLatestState(tasks, latestTaskDirectories)
filterTasksByLatestState(tasks, latest) ==
    SelectSeq(tasks, LAMBDA t : IsLive(latest, t))

----------------------------------------------------------------------------
(* cli.ts: handleBoardView                                                 *)

\* passing an empty status list whatever the configuration holds
StatusesDropped(cfg) == <<>>

\* const statuses = config?.statuses || []
Statuses(cfg) == IF cfg = Null THEN <<>> ELSE cfg.statuses

\* ignoring the configured strategy
ResolutionStrategyDefaultOnly(cfg) == "most_progressed"

\* const resolutionStrategy = config?.taskResolutionStrategy || "most_progressed"
ResolutionStrategy(cfg) ==
    IF cfg = Null THEN "most_progressed" ELSE cfg.taskResolutionStrategy

\* a JavaScript Map keyed by task id, as the sequence of its values in
\* insertion order
MapHas(m, id) == \E i \in 1..Len(m) : m[i].id = id
MapGet(m, id) == m[CHOOSE i \in 1..Len(m) : m[i].id = id]
\* a set() that adds an entry even when the key is present
MapSetAppend(m, id, rec) == Append(m, rec)

MapSet(m, id, rec) ==
    IF MapHas(m, id)
    THEN [i \in 1..Len(m) |-> IF m[i].id = id THEN rec ELSE m[i]]
    ELSE Append(m, rec)

\* a map that starts empty instead of holding the local tasks
LocalMapEmpty(tasks) == <<>>

\* new Map(localTasks.map((t) => [t.id, { ...t, source: "local" }]))
RECURSIVE LocalMap(_)
LocalMap(tasks) ==
    IF tasks = <<>> THEN <<>>
    ELSE LET init == LocalMap(SubSeq(tasks, 1, Len(tasks) - 1))
             t == tasks[Len(tasks)]
         IN  MapSet(init, t.id, [t EXCEPT !.source = "local"])

\* a merge that keeps the resolved record but always the newest date
MergeRemoteTaskFieldwise(m, remoteTask, statuses, strategy) ==
    IF ~MapHas(m, remoteTask.id) THEN MapSet(m, remoteTask.id, remoteTask)
    ELSE LET existing == MapGet(m, remoteTask.id)
             resolved == resolveTaskConflict(existing, remoteTask, statuses, strategy)
             newest == IF existing.updatedDate > remoteTask.updatedDate
                       THEN existing.updatedDate ELSE remoteTask.updatedDate
         IN  MapSet(m, remoteTask.id, [resolved EXCEPT !.updatedDate = newest])

\* the body of: for (const remoteTask of remoteTasks) { ... }
MergeRemoteTask(m, remoteTask, statuses, strategy) ==
    IF ~MapHas(m, remoteTask.id) THEN MapSet(m, remoteTask.id, remoteTask)
    ELSE LET existing == MapGet(m, remoteTask.id)
             resolved == resolveTaskConflict(existing, remoteTask, statuses, strategy)
         IN  MapSet(m, remoteTask.id, resolved)

\* the loop; an exception of resolveTaskConflict ends it
RECURSIVE MergeRemoteTasks(_, _, _, _)
MergeRemoteTasks(m, remotes, statuses, strategy) ==
    IF remotes = <<>> \/ ConfigError \in Range(m) THEN m
    ELSE MergeRemoteTasks(MergeRemoteTask(m, Head(remotes), statuses, strategy),
                          Tail(remotes), statuses, strategy)

\* taking the ids from the local tasks only
TaskIdsOfLocal(tasks) == {t.id : t \in {x \in Range(tasks) : x.source = "local"}}

\* const taskIds = tasks.map((t) => t.id)
TaskIdsOf(tasks) == {t.id : t \in Range(tasks)}

\* returning the merged tasks without the filter
BoardResultUnfiltered(tasks, latest) == tasks

\* const filteredTasks = filterTasksByLatestState(tasks, latestTaskDirectories);
\* return filteredTasks
BoardResult(tasks, latest) == filterTasksByLatestState(tasks, latest)

\* board export handing the merged tasks over without the filter
ExportResultUnfiltered(tasks, latest) == tasks

\* board export: const finalTasks = filterTasksByLatestState(tasks, latestTaskDirectories)
ExportResult(tasks, latest) == filterTasksByLatestState(tasks, latest)

\* const [localTasks, remoteTasks] = await Promise.all([core.listTasksWithMetadata(),
\* loadRemoteTasks(core.gitOps)]), the map of the local tasks and the merge loop
\* over the remote tasks; the remote tasks arrive in the order the branches
\* finished loading
\* (board export awaits the two loads one after the other, lines 897 and 905);
\* catch (error) { loadingScreen?.close(); throw error; } ends the run
BoardLoadAndMerge ==
    /\ pc = "start"
    /\ localTasks' \in Perms({RecordOf(c) : c \in LocalActiveCopies(world)})
    /\ remoteTasks' \in Perms(loadRemoteTasks(world, failedCall))
    /\ LET merged == MergeRemoteTasks(LocalMap(localTasks'), remoteTasks',
                                      Statuses(config), ResolutionStrategy(config))
       IN  IF ConfigError \in Range(merged)
           THEN tasksById' = <<>> /\ pc' = "failed"
           ELSE tasksById' = merged /\ pc' = "merged"
    /\ UNCHANGED <<config, command, world, latestTaskDirectories, allTasks, rendered, idVars, listVars, scanVars, raceVars, cmdVars>>

\* the map of the local tasks and the merge loop, on tasks already loaded
BoardMergeLoaded ==
    /\ pc = "loaded"
    /\ LET merged == MergeRemoteTasks(LocalMap(localTasks), remoteTasks,
                                      Statuses(config), ResolutionStrategy(config))
       IN  IF ConfigError \in Range(merged)
           THEN tasksById' = <<>> /\ pc' = "failed"
           ELSE tasksById' = merged /\ pc' = "merged"
    /\ UNCHANGED <<config, command, world, localTasks, remoteTasks, latestTaskDirectories, allTasks,
                   rendered, idVars, listVars, scanVars, raceVars, cmdVars>>

\* latestTaskDirectories = await getLatestTaskStatesForIds(core.gitOps, taskIds, ...)
BoardResolve ==
    /\ pc = "merged"
    /\ latestTaskDirectories' =
            getLatestTaskStatesForIds(VisibleWorld(world, failedCall), TaskIdsOf(tasksById))
    /\ pc' = "resolved"
    /\ UNCHANGED <<config, command, world, localTasks, remoteTasks, tasksById, allTasks, rendered,
                   idVars, listVars, scanVars, raceVars, cmdVars>>

\* allTasks = filterTasksByLatestState(tasks, latestTaskDirectories);
\* if (allTasks.length === 0) { console.log("No tasks found."); return; }
\* await renderBoardTui(allTasks, statuses, layout, maxColumnWidth)
BoardFilterAndRender ==
    /\ pc = "resolved"
    /\ command = "view"
    /\ allTasks' = BoardResult(tasksById, latestTaskDirectories)
    /\ rendered' = IF Len(allTasks') = 0 THEN NotRendered
                   ELSE [called |-> TRUE, tasks |-> allTasks']
    /\ pc' = "done"
    /\ UNCHANGED <<config, command, world, localTasks, remoteTasks, tasksById,
                   latestTaskDirectories, idVars, listVars, scanVars, raceVars, cmdVars>>

\* board export: finalTasks = filterTasksByLatestState(tasks, latestTaskDirectories);
\* await exportKanbanBoardToFile(finalTasks, statuses, outputPath, maxColumnWidth,
\* addTitle), with no test for an empty list
BoardFilterAndExport ==
    /\ pc = "resolved"
    /\ command = "export"
    /\ allTasks' = ExportResult(tasksById, latestTaskDirectories)
    /\ rendered' = [called |-> TRUE, tasks |-> allTasks']
    /\ pc' = "done"
    /\ UNCHANGED <<config, command, world, localTasks, remoteTasks, tasksById,
                   latestTaskDirectories, idVars, listVars, scanVars, raceVars, cmdVars>>

\* the variables of generateNextId before it is called
IdIdle ==
    /\ parent = NoParent
    /\ failedCall = "none"
    /\ gitFailed = FALSE
    /\ allIds = {}
    /\ newId = <<>>

\* the variables of the task list command before it is called
ListIdle ==
    /\ options = [status |-> "", assignee |-> "", plain |-> TRUE]
    /\ printed = <<>>

\* the variables of the branch scan before it starts
ScanIdle ==
    /\ branches = <<>>
    /\ inFlight = {}

\* no task create process runs
RaceIdle == procs = <<>>

\* an environment variable that is not set
Unset == [set |-> FALSE]

\* the process before the action of a command runs
CmdIdle ==
    /\ exitCode = 0
    /\ before = {}
    /\ env = [BACKLOG_EDITOR |-> Unset, VISUAL |-> Unset, EDITOR |-> Unset]
    /\ spawned = <<>>
    /\ viewRun = NoRun

\* the variables of the board before it is loaded
BoardIdle ==
    /\ command = "view"
    /\ localTasks = <<>>
    /\ remoteTasks = <<>>
    /\ tasksById = <<>>
    /\ latestTaskDirectories = <<>>
    /\ allTasks = <<>>
    /\ rendered = NotRendered

Init ==
    /\ config \in BoardConfigs
    /\ \E S \in SlotSets : \E f \in [S -> CopyShapes] :
            world = {MkCopy(slot, f[slot]) : slot \in S}
    /\ pc = "start"
    /\ BoardIdle
    /\ IdIdle
    /\ ScanIdle
    /\ CmdIdle
    /\ RaceIdle
    /\ ListIdle

Next == BoardLoadAndMerge \/ BoardResolve \/ BoardFilterAndRender

Spec == Init /\ [][Next]_vars

----------------------------------------------------------------------------
(* Properties of the board pipeline                                        *)

ObsOf(id) == ObservationsOfId(world, id)
MergedIds == {tasksById[i].id : i \in 1..Len(tasksById)}
ShownIds == {rendered.tasks[i].id : i \in 1..Len(rendered.tasks)}
Resolved == pc \in {"resolved", "done"}
Merged == pc \in {"merged", "resolved", "done"}

\* some active copy of the id is at least as recent as every copy of it
ActiveIsLatest(id) ==
    \E o \in ObsOf(id) : o.kind = "active" /\ \A p \in ObsOf(id) : p.ts <= o.ts

C2_LatestIsMaximal ==
    Resolved =>
        \A id \in DOMAIN latestTaskDirectories :
            /\ latestTaskDirectories[id] \in ObsOf(id)
            /\ \A p \in ObsOf(id) : p.ts <= latestTaskDirectories[id].ts

\* an id seen in three places, the latest copy strictly newer than another one
C2_Witness ==
    /\ pc = "resolved"
    /\ \E id \in DOMAIN latestTaskDirectories :
         /\ Cardinality(ObsOf(id)) = Cardinality(Places)
         /\ \E p \in ObsOf(id) : p.ts < latestTaskDirectories[id].ts

\* C3: among the observations of an id that share the resolved timestamp, none
\* has a preferred kind (active over draft over archived), and none of the same
\* kind is local when the resolved one is remote.
C3_TieBreak ==
    Resolved =>
        \A id \in DOMAIN latestTaskDirectories :
            LET r == latestTaskDirectories[id]
            IN  \A p \in ObsOf(id) :
                    p.ts = r.ts =>
                        /\ KindRank(p.kind) <= KindRank(r.kind)
                        /\ (p.kind = r.kind /\ p.branch = LocalPlace) => r.branch = LocalPlace

\* a three-way tie: a local active, a remote active and an archived copy with the
\* same timestamp, resolved to the local active copy
C3_Witness ==
    /\ pc = "resolved"
    /\ \E id \in DOMAIN latestTaskDirectories :
         LET r == latestTaskDirectories[id]
         IN  /\ r.kind = "active" /\ r.branch = LocalPlace
             /\ \E p \in ObsOf(id) : p.ts = r.ts /\ p.kind = "archived"
             /\ \E p \in ObsOf(id) : p.ts = r.ts /\ p.kind = "active" /\ p.branch # LocalPlace

\* C4: every record of the merged map is, field for field, one of the records
\* loaded for its id.
C4_NoFabricatedRecord ==
    Merged =>
        \A i \in 1..Len(tasksById) :
            \E r \in Range(localTasks) \cup Range(remoteTasks) : tasksById[i] = r

\* a local and a remote record of one id that differ in status and in date
C4_Witness ==
    /\ pc = "merged"
    /\ \E l \in Range(localTasks), r \in Range(remoteTasks) :
         /\ l.id = r.id
         /\ l.status # r.status
         /\ l.updatedDate # r.updatedDate
         /\ r \in Range(tasksById)

\* C10 as stated: every id with an observation has a resolved location.
C10_TotalOverObservedIds ==
    Resolved => DOMAIN latestTaskDirectories = ObservedIds(world)

\* C10, amended: the ids with a resolved location are exactly the observed ids
\* that have a record in the merged map (the ids handed to the resolver), each
\* with one location that is an observation of that id; every other id is absent.
C10_TotalOverMergedIds ==
    Resolved =>
        /\ DOMAIN latestTaskDirectories = MergedIds \cap ObservedIds(world)
        /\ \A id \in DOMAIN latestTaskDirectories : latestTaskDirectories[id] \in ObsOf(id)

\* one id resolved, one id without any observation
C10_Witness ==
    /\ pc = "resolved"
    /\ \E id \in BoardIds : id \in DOMAIN latestTaskDirectories /\ Cardinality(ObsOf(id)) > 1
    /\ \E id \in BoardIds : id \notin ObservedIds(world) /\ id \notin DOMAIN latestTaskDirectories

\* no two entries of the sequence carry the same id
UniqueIds(tasks) ==
    \A i, j \in 1..Len(tasks) : tasks[i].id = tasks[j].id => i = j

\* C11: the merged map, the filtered task list and the list handed to the
\* board hold at most one record per task id, whatever the local tasks and
\* however many remote records carry the same id, and an id found in several
\* places does not make the run fail
C11_OneRecordPerId ==
    /\ pc # "failed"
    /\ UniqueIds(tasksById)
    /\ UniqueIds(allTasks)
    /\ UniqueIds(rendered.tasks)

\* an id active in the working copy and on both branches is shown once
C11_Witness ==
    /\ pc = "done"
    /\ \E id \in BoardIds :
            /\ Cardinality({c \in world : c.id = id /\ c.kind = "active"}) = 3
            /\ Cardinality({i \in 1..Len(rendered.tasks) : rendered.tasks[i].id = id}) = 1

\* C12: the records kept by the merge loop are the same for every order in
\* which the remote records are folded into the map of the local tasks
C12_MergeOrderIndependent ==
    Merged =>
        \A p \in Perms(Range(remoteTasks)) :
            Range(MergeRemoteTasks(LocalMap(localTasks), p, Statuses(config),
                                   ResolutionStrategy(config))) = Range(tasksById)

----------------------------------------------------------------------------
(* The board commands while the remote fetch fails                         *)

\* a world of the offline runs holds at most two task files
OfflineSlotSets == {{}} \cup {{a, b} : a, b \in Slots}

InitOffline ==
    /\ config = [statuses |-> DefaultStatuses, taskResolutionStrategy |-> "most_progressed"]
    /\ \E S \in OfflineSlotSets : \E f \in [S -> CopyShapes] :
            world = {MkCopy(slot, f[slot]) : slot \in S}
    /\ pc = "start"
    /\ command \in {"view", "export"}
    /\ localTasks = <<>>
    /\ remoteTasks = <<>>
    /\ tasksById = <<>>
    /\ latestTaskDirectories = <<>>
    /\ allTasks = <<>>
    /\ rendered = NotRendered
    /\ parent = NoParent
    /\ failedCall = "fetch"
    /\ gitFailed = FALSE
    /\ allIds = {}
    /\ newId = <<>>
    /\ ScanIdle
    /\ CmdIdle
    /\ RaceIdle
    /\ ListIdle

\* board view and board export
NextOffline ==
    BoardLoadAndMerge \/ BoardResolve \/ BoardFilterAndRender \/ BoardFilterAndExport

SpecOffline == InitOffline /\ [][NextOffline]_vars

----------------------------------------------------------------------------
(* The board commands under a configuration that names no known strategy   *)

UnknownStrategyConfig ==
    [statuses |-> DefaultStatuses, taskResolutionStrategy |-> "newest_wins"]

InitStrategy ==
    /\ config = UnknownStrategyConfig
    /\ \E S \in OfflineSlotSets : \E f \in [S -> CopyShapes] :
            world = {MkCopy(slot, f[slot]) : slot \in S}
    /\ pc = "start"
    /\ command \in {"view", "export"}
    /\ localTasks = <<>>
    /\ remoteTasks = <<>>
    /\ tasksById = <<>>
    /\ latestTaskDirectories = <<>>
    /\ allTasks = <<>>
    /\ rendered = NotRendered
    /\ IdIdle
    /\ ScanIdle
    /\ CmdIdle
    /\ RaceIdle
    /\ ListIdle

SpecStrategy == InitStrategy /\ [][NextOffline]_vars

\* C17: a board run whose configuration names a strategy other than
\* most_progressed and most_recent fails at once: it gets past no step and
\* hands no task list to the board
C17_UnknownStrategyFails ==
    (config # Null /\ config.taskResolutionStrategy \notin {"most_progressed", "most_recent"}) =>
        /\ pc \in {"start", "failed"}
        /\ ~rendered.called

----------------------------------------------------------------------------
(* The conflict resolver on one local and one remote record of the same id *)

ConflictRecord(source, status, date) ==
    [id |-> <<1>>, status |-> status, updatedDate |-> date, source |-> source,
     branch |-> IF source = "local" THEN LocalPlace ELSE "origin/main"]

InitConflict ==
    /\ config \in ConflictConfigs
    /\ world = {}
    /\ pc = "loaded"
    /\ command = "view"
    /\ \E s \in ConflictStatuses, d \in ConflictDates :
            localTasks = <<ConflictRecord("local", s, d)>>
    /\ \E s \in ConflictStatuses, d \in ConflictDates :
            remoteTasks = <<ConflictRecord("remote", s, d)>>
    /\ tasksById = <<>>
    /\ latestTaskDirectories = <<>>
    /\ allTasks = <<>>
    /\ rendered = NotRendered
    /\ IdIdle
    /\ ScanIdle
    /\ CmdIdle
    /\ RaceIdle
    /\ ListIdle

NextConflict == BoardMergeLoaded

SpecConflict == InitConflict /\ [][NextConflict]_vars

\* the status order and the strategy the configuration asks for
ConfiguredOrder == IF config = Null THEN <<>> ELSE config.statuses
ConfiguredStrategy == IF config = Null THEN "most_progressed" ELSE config.taskResolutionStrategy

\* position of a status in the configured order, 0 when it is not configured
PositionOf(status) ==
    IF \E i \in 1..Len(ConfiguredOrder) : ConfiguredOrder[i] = status
    THEN CHOOSE i \in 1..Len(ConfiguredOrder) :
            ConfiguredOrder[i] = status /\ \A j \in 1..(i - 1) : ConfiguredOrder[j] # status
    ELSE 0

\* C5: under most_progressed the record with the higher status rank is kept (an
\* unconfigured status ranks lowest); on equal ranks the one with the later
\* updatedDate; on equal rank and date the local one.
C5_MostProgressed ==
    (pc = "merged" /\ ConfiguredStrategy = "most_progressed" /\ Len(localTasks) = 1
        /\ Len(remoteTasks) = 1 /\ localTasks[1].id = remoteTasks[1].id) =>
        LET l == localTasks[1]
            r == remoteTasks[1]
            kept == tasksById[1]
        IN  /\ Len(tasksById) = 1
            /\ PositionOf(r.status) > PositionOf(l.status) => kept = r
            /\ PositionOf(l.status) > PositionOf(r.status) => kept = l
            /\ (PositionOf(l.status) = PositionOf(r.status) /\ r.updatedDate > l.updatedDate)
                    => kept = r
            /\ (PositionOf(l.status) = PositionOf(r.status) /\ r.updatedDate <= l.updatedDate)
                    => kept = l

\* local "To Do" edited later than remote "Done": the remote record is kept
C5_Witness ==
    /\ pc = "merged"
    /\ config # Null
    /\ config.statuses = DefaultStatuses
    /\ config.taskResolutionStrategy = "most_progressed"
    /\ localTasks[1].status = "To Do"
    /\ remoteTasks[1].status = "Done"
    /\ localTasks[1].updatedDate > remoteTasks[1].updatedDate
    /\ tasksById = remoteTasks

\* C6: under most_recent the record with the later updatedDate is kept, whatever
\* the two statuses are; on equal dates the local one.
C6_MostRecent ==
    (pc = "merged" /\ ConfiguredStrategy = "most_recent" /\ Len(localTasks) = 1
        /\ Len(remoteTasks) = 1 /\ localTasks[1].id = remoteTasks[1].id) =>
        LET l == localTasks[1]
            r == remoteTasks[1]
            kept == tasksById[1]
        IN  /\ Len(tasksById) = 1
            /\ r.updatedDate > l.updatedDate => kept = r
            /\ r.updatedDate <= l.updatedDate => kept = l

\* local "Done" against a later remote "To Do": the remote record is kept
C6_Witness ==
    /\ pc = "merged"
    /\ config # Null
    /\ config.taskResolutionStrategy = "most_recent"
    /\ localTasks[1].status = "Done"
    /\ remoteTasks[1].status = "To Do"
    /\ remoteTasks[1].updatedDate > localTasks[1].updatedDate
    /\ tasksById = remoteTasks

----------------------------------------------------------------------------
(* cli.ts: generateNextId                                                  *)

\* core.filesystem.listTasks() and core.filesystem.listDrafts(), as id sets
ListTasks(w) == {c.id : c \in {x \in w : x.place = LocalPlace /\ x.kind = "active"}}
ListDrafts(w) == {c.id : c \in {x \in w : x.place = LocalPlace /\ x.kind = "draft"}}

\* the directory of a location kind
DirOf(kind) ==
    CASE kind = "active" -> "backlog/tasks"
      [] kind = "draft" -> "backlog/drafts"
      [] OTHER -> "backlog/archive/tasks"

\* core.gitOps.listFilesInTree(branch, path): the files of the branch under path
listFilesInTree(w, branch, path) == {c \in w : c.place = branch /\ DirOf(c.kind) = path}

\* file.match(/task-([\d.]+)/) and `task-${match[1]}`: the id in a file name
FileTaskId(file) == file.id

\* one element of branchFilePromises: the ids of the task files of one branch
BranchTaskIds(w, branch) ==
    {FileTaskId(f) : f \in listFilesInTree(w, branch, "backlog/tasks")}

\* a scan that reads no branch
ScanBranchesNone(w) == {}

\* for (const branchIds of branchResults) allIds.push(...branchIds)
ScanBranches(w) == UNION {BranchTaskIds(w, b) : b \in Branches}

MaxOf(S) == IF S = {} THEN 0 ELSE CHOOSE m \in S : \A n \in S : n <= m

\* parent.startsWith("task-") ? parent : `task-${parent}`
ParentPrefix(p) == p.segs

\* id.startsWith(`${prefix}.`)
StartsWithPrefixDot(id, prefix) ==
    Len(id) > Len(prefix) /\ SubSeq(id, 1, Len(prefix)) = prefix

\* Number.parseInt(id.slice(prefix.length + 1).split(".")[0] || "0", 10)
SubtaskOrdinal(id, prefix) == id[Len(prefix) + 1]

\* the two loops of the parent branch: over tasks and over allIds
SubtaskMax(prefix, tasks, ids) ==
    MaxOf({SubtaskOrdinal(id, prefix) : id \in {i \in tasks \cup ids : StartsWithPrefixDot(i, prefix)}})

\* id.match(/^task-(\d+)/) and Number.parseInt(match[1] || "0", 10)
LeadingNumber(id) == id[1]

\* the two loops of the top-level branch: over all = [...tasks, ...drafts] and allIds
TopLevelMax(all, ids) == MaxOf({LeadingNumber(id) : id \in all \cup ids})

\* the value generateNextId returns
NextIdFor(p, tasks, drafts, ids) ==
    IF p.given
    THEN Append(ParentPrefix(p), SubtaskMax(ParentPrefix(p), tasks, ids) + 1)
    ELSE <<TopLevelMax(tasks \cup drafts, ids) + 1>>

\* the calls of core.gitOps inside the try block, in the order they are made
GitCalls == {"fetch", "listAllBranches", "listFilesInTree"}

\* the try block: fetch, listAllBranches and the file listing of every branch;
\* when any of them throws, the catch leaves allIds empty (allIds.push comes
\* after the await of Promise.all)
NextIdScan ==
    /\ pc = "id_start"
    /\ parent' \in ParentInputs
    /\ failedCall' \in GitCalls \cup {"none"}
    /\ gitFailed' = (failedCall' # "none")
    /\ allIds' = IF gitFailed' THEN {} ELSE ScanBranches(world)
    /\ pc' = "id_scanned"
    /\ UNCHANGED <<config, boardVars, newId, listVars, scanVars, raceVars, cmdVars>>

\* the computation of the maximum and the return
NextIdReturn ==
    /\ pc = "id_scanned"
    /\ newId' = NextIdFor(parent, ListTasks(world), ListDrafts(world), allIds)
    /\ pc' = "id_done"
    /\ UNCHANGED <<config, boardVars, parent, failedCall, gitFailed, allIds, listVars, scanVars, raceVars, cmdVars>>

InitNextId ==
    /\ config = Null
    /\ \E S \in IdSlotSets : world = {MkFile(slot) : slot \in S}
    /\ pc = "id_start"
    /\ BoardIdle
    /\ IdIdle
    /\ ScanIdle
    /\ CmdIdle
    /\ RaceIdle
    /\ ListIdle

NextNextId == NextIdScan \/ NextIdReturn

SpecNextId == InitNextId /\ [][NextNextId]_vars

\* every id of the universe of the claim: the local tasks, the local drafts and
\* the copies in any location kind on any branch
VisibleIds == {c.id : c \in world}

\* C7: without a parent, after a successful scan, the id returned is task-(m+1)
\* with m the largest leading number of the visible ids, 0 when there is none.
C7_TopLevelNextId ==
    (pc = "id_done" /\ ~parent.given /\ ~gitFailed) =>
        newId = <<MaxOf({id[1] : id \in VisibleIds}) + 1>>

\* C8: with parent P, after a successful scan, the id returned is P.(k+1) with k
\* the largest ordinal n of the visible ids P.n, 0 when there is none.
C8_SubtaskNextId ==
    (pc = "id_done" /\ parent.given /\ ~gitFailed) =>
        newId = Append(parent.segs,
                       MaxOf({id[Len(parent.segs) + 1] :
                                id \in {i \in VisibleIds :
                                          /\ Len(i) = Len(parent.segs) + 1
                                          /\ SubSeq(i, 1, Len(parent.segs)) = parent.segs}}) + 1)

\* the ids of the tasks and drafts of the working copy
LocalIds == {c.id : c \in {x \in world : x.place = LocalPlace}}

\* C15: when fetch, branch enumeration or the file listing of a branch fails,
\* generateNextId raises no error and returns the next id over the local
\* tasks and drafts: task-(m+1) without a parent, P.(k+1) with parent P
C15_NextIdFromLocalData ==
    /\ pc \in {"id_start", "id_scanned", "id_done"}
    /\ (pc = "id_done" /\ failedCall \in GitCalls) =>
            newId = IF parent.given
                    THEN Append(parent.segs,
                                MaxOf({id[Len(parent.segs) + 1] :
                                         id \in {i \in LocalIds :
                                                   /\ Len(i) = Len(parent.segs) + 1
                                                   /\ SubSeq(i, 1, Len(parent.segs)) = parent.segs}}) + 1)
                    ELSE <<MaxOf({id[1] : id \in LocalIds}) + 1>>

\* C16: when only the fetch fails, the branches already known are still
\* listed and the ids of their task files are in allIds
C16_FetchFailureKeepsBranchData ==
    (pc \in {"id_scanned", "id_done"} /\ failedCall = "fetch") =>
        allIds = {c.id : c \in {x \in world : x.place \in Branches /\ x.kind = "active"}}

\* C24: whenever the branch scan succeeds, the id returned, with or without a
\* parent, is the id of no local task, no local draft and no task file of any
\* branch in the active, draft or archived location
C24_FreshId ==
    (pc = "id_done" /\ ~gitFailed) => newId \notin VisibleIds

----------------------------------------------------------------------------
(* generateNextId: the requests of the branch scan, one step per request   *)

\* the largest number of branches listAllBranches returns
MaxBranches == 17

\* the size of the worker pool the specification asks for (4.1: 8 to 16)
WorkerPoolSize == 16

\* await core.gitOps.fetch(); const branches = await core.gitOps.listAllBranches()
ScanListBranches ==
    /\ pc = "scan_start"
    /\ \E n \in 0..MaxBranches : branches' = [i \in 1..n |-> i]
    /\ pc' = "scan_branches"
    /\ UNCHANGED <<config, boardVars, idVars, listVars, inFlight, raceVars, cmdVars>>

\* branches.map(async (branch) => { const files = await
\* core.gitOps.listFilesInTree(branch, "backlog/tasks"); ... }): map runs the
\* callback of every branch up to its await, so every request is issued
\* before the first one settles
ScanStartListings ==
    /\ pc = "scan_branches"
    /\ inFlight' = Range(branches)
    /\ pc' = "scan_listing"
    /\ UNCHANGED <<config, boardVars, idVars, listVars, branches, raceVars, cmdVars>>

\* the listFilesInTree request of one branch settles
ScanListingSettles ==
    /\ pc = "scan_listing"
    /\ \E b \in inFlight : inFlight' = inFlight \ {b}
    /\ UNCHANGED <<config, pc, boardVars, idVars, listVars, branches, raceVars, cmdVars>>

\* await Promise.all(branchFilePromises) and the loop that fills allIds
ScanJoin ==
    /\ pc = "scan_listing"
    /\ inFlight = {}
    /\ allIds' = UNION {BranchTaskIds(world, b) : b \in Range(branches)}
    /\ pc' = "scan_done"
    /\ UNCHANGED <<config, boardVars, parent, failedCall, gitFailed, newId, listVars,
                   scanVars, raceVars, cmdVars>>

InitScan ==
    /\ config = Null
    /\ world = {}
    /\ pc = "scan_start"
    /\ BoardIdle
    /\ IdIdle
    /\ ScanIdle
    /\ CmdIdle
    /\ RaceIdle
    /\ ListIdle

NextScan == ScanListBranches \/ ScanStartListings \/ ScanListingSettles \/ ScanJoin

SpecScan == InitScan /\ [][NextScan]_vars

\* the branches whose file listing has not settled yet
BranchesRemaining == inFlight

\* C19: at every moment of a scan at most WorkerPoolSize file-listing
\* requests are in flight, however many branches there are, and more than
\* one is in flight while more than one branch remains to be scanned
C19_BoundedParallelism ==
    /\ Cardinality(inFlight) <= WorkerPoolSize
    /\ (pc = "scan_listing" /\ Cardinality(BranchesRemaining) > 1) => Cardinality(inFlight) > 1

----------------------------------------------------------------------------
(* cli.ts: task create, run by two processes in two working copies         *)

RaceProcs == {"p1", "p2"}

\* the working copy of a process and the branch its commits are pushed to
WorkingCopy(p) == IF p = "p1" THEN "wc1" ELSE "wc2"
PushBranch(p) == IF p = "p1" THEN "origin/main" ELSE "origin/feature"

RaceSlots ==
    ({WorkingCopy(p) : p \in RaceProcs} \cup Branches) \X {<<n>> : n \in 1..MaxNum}

RaceFile(place, id, kind) ==
    [place |-> place, id |-> id, kind |-> kind, ts |-> 1, status |-> "To Do",
     updatedDate |-> 1]

\* what the Core of process p reads: its own working copy and the branches
ViewOf(p, w) ==
    {[c EXCEPT !.place = LocalPlace] : c \in {x \in w : x.place = WorkingCopy(p)}}
    \cup {c \in w : c.place \in Branches}

\* const id = await generateNextId(core, options.parent), without --parent
RaceNextId(p) ==
    /\ procs[p].pc = "idle"
    /\ LET view == ViewOf(p, world)
       IN  procs' = [procs EXCEPT
                ![p].pc = "has_id",
                ![p].newId = NextIdFor(NoParent, ListTasks(view), ListDrafts(view),
                                       ScanBranches(view)),
                ![p].sawPush = \E q \in RaceProcs \ {p} : procs[q].pc = "pushed"]
    /\ UNCHANGED <<config, pc, boardVars, idVars, listVars, scanVars, cmdVars>>

\* buildTaskFromOptions and core.createDraft(task, true) or
\* core.createTask(task, true): the file is written and committed in the
\* working copy, whatever ids other working copies hold
RaceCreate(p) ==
    /\ procs[p].pc = "has_id"
    /\ world' = world \cup {RaceFile(WorkingCopy(p), procs[p].newId,
                                     IF procs[p].draft THEN "draft" ELSE "active")}
    /\ procs' = [procs EXCEPT ![p].pc = "created"]
    /\ UNCHANGED <<config, pc, command, localTasks, remoteTasks, tasksById,
                   latestTaskDirectories, allTasks, rendered, idVars, listVars, scanVars, cmdVars>>

\* the user pushes the branch of the working copy
RacePush(p) ==
    /\ procs[p].pc = "created"
    /\ world' = world \cup {[c EXCEPT !.place = PushBranch(p)] :
                                c \in {x \in world : x.place = WorkingCopy(p)}}
    /\ procs' = [procs EXCEPT ![p].pc = "pushed"]
    /\ UNCHANGED <<config, pc, command, localTasks, remoteTasks, tasksById,
                   latestTaskDirectories, allTasks, rendered, idVars, listVars, scanVars, cmdVars>>

InitRace ==
    /\ config = Null
    /\ \E S \in SUBSET RaceSlots : world = {RaceFile(slot[1], slot[2], "active") : slot \in S}
    /\ pc = "race"
    /\ command = "view"
    /\ localTasks = <<>>
    /\ remoteTasks = <<>>
    /\ tasksById = <<>>
    /\ latestTaskDirectories = <<>>
    /\ allTasks = <<>>
    /\ rendered = NotRendered
    /\ IdIdle
    /\ ScanIdle
    /\ CmdIdle
    /\ ListIdle
    /\ procs \in [RaceProcs -> [pc : {"idle"}, draft : BOOLEAN, newId : {<<>>},
                                sawPush : {FALSE}]]

NextRace == \E p \in RaceProcs : RaceNextId(p) \/ RaceCreate(p) \/ RacePush(p)

SpecRace == InitRace /\ [][NextRace]_vars

\* C18: two task create processes in two working copies can obtain the same
\* id and both create a task with it, nothing keeps the second from writing;
\* the id a process has used is avoided by the other only when the other scans
\* the branches after the task was pushed
C18_DuplicateSeenAfterRescan ==
    \A p, q \in RaceProcs :
        (p # q /\ procs[p].pc # "idle" /\ procs[p].sawPush /\ ~procs[q].draft) =>
            procs[p].newId[1] > procs[q].newId[1]

\* both processes saw the same ids and both created a task with the same id
C18_Witness ==
    /\ {c.id : c \in {x \in world : x.place = "wc1"}} = {c.id : c \in {x \in world : x.place = "wc2"}}
    /\ \A p \in RaceProcs : procs[p].pc = "created" /\ ~procs[p].draft /\ ~procs[p].sawPush
    /\ procs["p1"].newId = procs["p2"].newId
    /\ \A p \in RaceProcs :
            \E c \in world : c.place = WorkingCopy(p) /\ c.id = procs[p].newId /\ c.kind = "active"

----------------------------------------------------------------------------
(* cli.ts: task list --plain                                               *)

\* String.prototype.toLowerCase on the strings of the model
ToLowerCase(str) ==
    CASE str = "To Do" -> "to do"
      [] str = "Done" -> "done"
      [] str = "Blocked" -> "blocked"
      [] str = "Later" -> "later"
      [] str = "HIGH" -> "high"
      [] OTHER -> str

\* the two filters on --status and --assignee
FilterTasks(tasks, opts) ==
    LET byStatus ==
            IF opts.status # ""
            THEN SelectSeq(tasks, LAMBDA t : ToLowerCase(t.status) = ToLowerCase(opts.status))
            ELSE tasks
    IN  IF opts.assignee # ""
        THEN SelectSeq(byStatus, LAMBDA t : opts.assignee \in Range(t.assignee))
        ELSE byStatus

\* groups: a Map from status to the list of its tasks, as the sequence of its
\* entries [status, list] in insertion order
GroupHas(groups, status) == \E i \in 1..Len(groups) : groups[i].status = status
GroupList(groups, status) ==
    IF GroupHas(groups, status)
    THEN groups[CHOOSE i \in 1..Len(groups) : groups[i].status = status].list
    ELSE <<>>
GroupSet(groups, status, list) ==
    IF GroupHas(groups, status)
    THEN [i \in 1..Len(groups) |->
            IF groups[i].status = status THEN [status |-> status, list |-> list]
            ELSE groups[i]]
    ELSE Append(groups, [status |-> status, list |-> list])

\* a grouping that puts each task in front of its group
RECURSIVE GroupByStatusPrepend(_)
GroupByStatusPrepend(tasks) ==
    IF tasks = <<>> THEN <<>>
    ELSE LET groups == GroupByStatusPrepend(SubSeq(tasks, 1, Len(tasks) - 1))
             task == tasks[Len(tasks)]
         IN  GroupSet(groups, task.status, <<task>> \o GroupList(groups, task.status))

\* for (const task of filtered) { ... groups.set(status, list) }
RECURSIVE GroupByStatus(_)
GroupByStatus(tasks) ==
    IF tasks = <<>> THEN <<>>
    ELSE LET groups == GroupByStatus(SubSeq(tasks, 1, Len(tasks) - 1))
             task == tasks[Len(tasks)]
         IN  GroupSet(groups, task.status, Append(GroupList(groups, task.status), task))

\* Array.from(groups.keys())
GroupKeys(groups) == [i \in 1..Len(groups) |-> groups[i].status]

\* an order made of the configured statuses only
OrderedConfiguredOnly(statuses, groups) ==
    SelectSeq(statuses, LAMBDA st : GroupHas(groups, st))

\* const ordered = [...statuses.filter((s) => groups.has(s)),
\*                  ...Array.from(groups.keys()).filter((s) => !statuses.includes(s))]
Ordered(statuses, groups) ==
    SelectSeq(statuses, LAMBDA st : GroupHas(groups, st))
    \o SelectSeq(GroupKeys(groups), LAMBDA st : st \notin Range(statuses))

\* for (const status of ordered) { ... }: one printed group per element
PrintGroups(ordered, groups) ==
    [i \in 1..Len(ordered) |->
        [status |-> ordered[i],
         label |-> IF ordered[i] = "" THEN "No Status" ELSE ordered[i],
         ids |-> [k \in 1..Len(GroupList(groups, ordered[i])) |->
                    GroupList(groups, ordered[i])[k].id]]]

\* the action of `task list --plain`
TaskListPlain ==
    /\ pc = "list_start"
    /\ LET filtered == FilterTasks(localTasks, options)
           groups == GroupByStatus(filtered)
       IN  printed' = IF Len(filtered) = 0 THEN <<>>
                      ELSE PrintGroups(Ordered(Statuses(config), groups), groups)
    /\ pc' = "list_done"
    /\ UNCHANGED <<config, command, world, localTasks, remoteTasks, tasksById, latestTaskDirectories,
                   allTasks, rendered, idVars, options, scanVars, raceVars, cmdVars>>

\* the tasks core.filesystem.listTasks() returns: task i of the list is task-i
ListTask(i, status, assignee) ==
    [id |-> <<i>>, status |-> status, assignee |-> assignee]

TaskLists ==
    UNION {[1..n -> ListStatuses \X {<<>>, <<"@sara">>}] : n \in 0..MaxTasks}

InitList ==
    /\ config \in ListConfigs
    /\ world = {}
    /\ pc = "list_start"
    /\ command = "view"
    /\ \E f \in TaskLists :
            localTasks = [i \in 1..Len(f) |-> ListTask(i, f[i][1], f[i][2])]
    /\ remoteTasks = <<>>
    /\ tasksById = <<>>
    /\ latestTaskDirectories = <<>>
    /\ allTasks = <<>>
    /\ rendered = NotRendered
    /\ IdIdle
    /\ ScanIdle
    /\ CmdIdle
    /\ RaceIdle
    /\ options \in ListOptions
    /\ printed = <<>>

NextList == TaskListPlain

SpecList == InitList /\ [][NextList]_vars

\* the tasks that pass --status and --assignee, stated on the input
PassesFilters(t) ==
    /\ options.status = "" \/ ToLowerCase(t.status) = ToLowerCase(options.status)
    /\ options.assignee = "" \/ options.assignee \in Range(t.assignee)

Listed == {localTasks[i] : i \in {k \in 1..Len(localTasks) : PassesFilters(localTasks[k])}}

IsConfigured(status) == \E i \in 1..Len(ConfiguredOrder) : ConfiguredOrder[i] = status

\* position in the input of the first listed task with the status
FirstSeen(status) ==
    CHOOSE i \in 1..Len(localTasks) :
        /\ localTasks[i] \in Listed /\ localTasks[i].status = status
        /\ \A j \in 1..(i - 1) : ~(localTasks[j] \in Listed /\ localTasks[j].status = status)

\* C9: in the printed list the groups of configured statuses come first and
\* follow the configured order; the groups of the other statuses come after them,
\* one per status, in the order the statuses were first met in the input; every
\* listed task is printed in the group of its status.
C9_GroupingOrder ==
    pc = "list_done" =>
        /\ \A t \in Listed :
                \E g \in 1..Len(printed) :
                    printed[g].status = t.status /\ t.id \in Range(printed[g].ids)
        /\ \A i, j \in 1..Len(printed) :
                i < j =>
                    /\ IsConfigured(printed[j].status) => IsConfigured(printed[i].status)
                    /\ (IsConfigured(printed[i].status) /\ IsConfigured(printed[j].status)) =>
                            \E a, b \in 1..Len(ConfiguredOrder) :
                                /\ a < b
                                /\ ConfiguredOrder[a] = printed[i].status
                                /\ ConfiguredOrder[b] = printed[j].status
                    /\ (~IsConfigured(printed[i].status) /\ ~IsConfigured(printed[j].status)) =>
                            /\ printed[i].status # printed[j].status
                            /\ FirstSeen(printed[i].status) < FirstSeen(printed[j].status)

\* two unconfigured statuses met before a configured one: the configured group
\* is printed first, then the two others in the order they were met
C9_Witness ==
    /\ pc = "list_done"
    /\ Len(printed) = 3
    /\ IsConfigured(printed[1].status)
    /\ ~IsConfigured(printed[2].status)
    /\ ~IsConfigured(printed[3].status)
    /\ localTasks[1].status = printed[2].status
    /\ localTasks[2].status = printed[3].status
    /\ localTasks[3].status = printed[1].status

\* C20: within each printed group the tasks stand in the same relative order
\* as in the list the command loaded (task i of that list has id task-i)
C20_StableGrouping ==
    pc = "list_done" =>
        \A g \in 1..Len(printed) :
            \A k, l \in 1..Len(printed[g].ids) :
                k < l => printed[g].ids[k][1] < printed[g].ids[l][1]

\* the first and the third task share a status, the second has another one
C20_Witness ==
    /\ pc = "list_done"
    /\ \E g \in 1..Len(printed) : printed[g].ids = <<<<1>>, <<3>>>>
    /\ \E g \in 1..Len(printed) : printed[g].ids = <<<<2>>>>

\* where the id of a task stands in the printed groups
PrintedAt(id) ==
    {gk \in (1..Len(printed)) \X (1..MaxTasks) :
        gk[2] <= Len(printed[gk[1]].ids) /\ printed[gk[1]].ids[gk[2]] = id}

\* C25: in the plain list every task that passes the status and assignee
\* filters is printed exactly once, in the group of its exact status, and no
\* other task is printed, whatever the configured status list is
C25_PrintedExactlyOnce ==
    pc = "list_done" =>
        \A i \in 1..Len(localTasks) :
            IF PassesFilters(localTasks[i])
            THEN /\ Cardinality(PrintedAt(localTasks[i].id)) = 1
                 /\ \A gk \in PrintedAt(localTasks[i].id) :
                        printed[gk[1]].status = localTasks[i].status
            ELSE PrintedAt(localTasks[i].id) = {}

----------------------------------------------------------------------------
(* cli.ts: openFileInEditor                                                *)

\* what an environment variable can hold: nothing, the empty string, a command
EnvValues == {Unset} \cup [set : {TRUE}, value : {"", "vim", "code"}]

EditorFiles == {"backlog/tasks/task-1 - a.md", "backlog/tasks/task-2 - b.md"}

\* JavaScript truthiness of process.env.X: undefined and "" are falsy
Truthy(v) == v.set /\ v.value # ""

\* a ?? b: the left operand unless it is undefined
OrElseNullish(a, b) == IF a.set THEN a ELSE b

\* a || b
OrElse(a, b) == IF Truthy(a) THEN a ELSE b

\* const editor = process.env.BACKLOG_EDITOR || process.env.VISUAL || process.env.EDITOR
EditorOf(e) == OrElse(OrElse(e.BACKLOG_EDITOR, e.VISUAL), e.EDITOR)

\* if (!editor) throw new Error(...); Bun.spawn([editor, filePath], ...);
\* await proc.exited
OpenFileInEditor ==
    /\ pc = "editor_start"
    /\ IF ~Truthy(EditorOf(env))
       THEN pc' = "failed" /\ spawned' = spawned
       ELSE pc' = "done" /\ spawned' = Append(spawned, <<EditorOf(env).value, options.filePath>>)
    /\ UNCHANGED <<config, boardVars, idVars, listVars, scanVars, raceVars, exitCode,
                   before, env, viewRun>>

InitEditor ==
    /\ config = Null
    /\ world = {}
    /\ pc = "editor_start"
    /\ BoardIdle
    /\ IdIdle
    /\ ScanIdle
    /\ RaceIdle
    /\ options \in [filePath : EditorFiles]
    /\ printed = <<>>
    /\ exitCode = 0
    /\ before = {}
    /\ env \in [BACKLOG_EDITOR : EnvValues, VISUAL : EnvValues, EDITOR : EnvValues]
    /\ spawned = <<>>
    /\ viewRun = NoRun

NextEditor == OpenFileInEditor

SpecEditor == InitEditor /\ [][NextEditor]_vars

\* the three variables in the order of their precedence
EditorVariables == <<env.BACKLOG_EDITOR, env.VISUAL, env.EDITOR>>

\* the positions of the variables that are set and not empty
Configured == {i \in 1..3 : EditorVariables[i].set /\ EditorVariables[i].value # ""}

\* C23: once openFileInEditor has run, the first of BACKLOG_EDITOR, VISUAL and
\* EDITOR that is set and not empty is the one command started, with the file
\* path as its argument; when none is, the call fails and starts no process
C23_EditorChoice ==
    pc \in {"done", "failed"} =>
        IF Configured # {}
        THEN /\ pc = "done"
             /\ spawned = << <<EditorVariables[CHOOSE i \in Configured :
                                                \A j \in Configured : i <= j].value,
                                options.filePath>> >>
        ELSE pc = "failed" /\ spawned = <<>>

\* BACKLOG_EDITOR is set but empty, VISUAL is not set and EDITOR is started
C23_Witness ==
    /\ pc = "done"
    /\ env.BACKLOG_EDITOR.set /\ env.BACKLOG_EDITOR.value = ""
    /\ ~env.VISUAL.set
    /\ spawned = << <<"vim", options.filePath>> >>
    /\ env.EDITOR.set /\ env.EDITOR.value = "vim"

----------------------------------------------------------------------------
(* cli.ts: task describe and task notes                                    *)

\* a description is the sequence of its lines; a line that starts with "## "
\* opens a section
DescriptionHeader == "## Description"
NotesHeader == "## Implementation Notes"
CriteriaHeader == "## Acceptance Criteria"
Headers == {DescriptionHeader, NotesHeader, CriteriaHeader}

Descriptions ==
    { <<>>,
      <<"Initial">>,
      <<DescriptionHeader, "Initial">>,
      <<DescriptionHeader, "Initial", NotesHeader, "Old notes">>,
      <<DescriptionHeader, "Initial", CriteriaHeader, "- [ ] works">>,
      <<NotesHeader, "Old notes", CriteriaHeader, "- [ ] works">> }

CommandTexts == {"Updated description", "Some notes"}

\* a stored task file of the working copy
StoredTask(id, kind, description) ==
    [place |-> LocalPlace, id |-> id, kind |-> kind, ts |-> 1, status |-> "To Do",
     updatedDate |-> 1, title |-> "Test", description |-> description]

\* the task id argument, written with or without the "task-" prefix
TaskIdArgs == [prefixed : BOOLEAN, segs : {<<1>>, <<2>>, <<3>>}]

\* ./markdown/serializer.ts: the first line of the section with this header,
\* 0 when there is none
SectionStart(lines, header) ==
    IF \E i \in 1..Len(lines) : lines[i] = header
    THEN CHOOSE i \in 1..Len(lines) :
            lines[i] = header /\ \A j \in 1..(i - 1) : lines[j] # header
    ELSE 0

\* the last line of the section that starts at line start
SectionEnd(lines, start) ==
    CHOOSE e \in start..Len(lines) :
        /\ \A j \in (start + 1)..e : lines[j] \notin Headers
        /\ (e = Len(lines) \/ lines[e + 1] \in Headers)

\* the lines of the section with this header, the header line left out
SectionBody(lines, header) ==
    IF SectionStart(lines, header) = 0 THEN <<>>
    ELSE SubSeq(lines, SectionStart(lines, header) + 1,
                SectionEnd(lines, SectionStart(lines, header)))

\* the section replaced by the header and the text
ReplaceSection(lines, header, text) ==
    LET start == SectionStart(lines, header)
    IN  SubSeq(lines, 1, start - 1) \o <<header, text>>
        \o SubSeq(lines, SectionEnd(lines, start) + 1, Len(lines))

\* updateTaskDescription(content, text): the Description section is replaced,
\* or put in front when the content has none
updateTaskDescription(lines, text) ==
    IF SectionStart(lines, DescriptionHeader) = 0
    THEN <<DescriptionHeader, text>> \o lines
    ELSE ReplaceSection(lines, DescriptionHeader, text)

\* updateTaskImplementationNotes(content, notes): the Implementation Notes
\* section is replaced, or added at the end when the content has none
updateTaskImplementationNotes(lines, text) ==
    IF SectionStart(lines, NotesHeader) = 0
    THEN lines \o <<NotesHeader, text>>
    ELSE ReplaceSection(lines, NotesHeader, text)

\* core.filesystem.loadTask(taskId): the task of backlog/tasks with this id,
\* the id taken with or without its prefix
loadTask(w, taskId) ==
    IF \E c \in w : c.place = LocalPlace /\ c.kind = "active" /\ c.id = taskId.segs
    THEN CHOOSE c \in w : c.place = LocalPlace /\ c.kind = "active" /\ c.id = taskId.segs
    ELSE Null

\* core.updateTask(task, true): the file of the task is written again
updateTask(w, task) ==
    {c \in w : ~(c.place = LocalPlace /\ c.kind = "active" /\ c.id = task.id)} \cup {task}

\* the description set to the text itself, as task edit --description does
DescribedTaskRaw(task, text) == [task EXCEPT !.description = <<text>>]

\* task.description = updateTaskDescription(task.description, text)
DescribedTask(task, text) ==
    [task EXCEPT !.description = updateTaskDescription(task.description, text)]

\* the notes written into the Description section
NotedTaskAsDescription(task, text) ==
    [task EXCEPT !.description = updateTaskDescription(task.description, text)]

\* task.description = updateTaskImplementationNotes(task.description, text)
NotedTask(task, text) ==
    [task EXCEPT !.description = updateTaskImplementationNotes(task.description, text)]

\* the action of `task describe <taskId> <text>`
TaskDescribe ==
    /\ pc = "describe_start"
    /\ options.command = "describe"
    /\ LET task == loadTask(world, options.taskId)
       IN  IF task = Null
           THEN world' = world /\ printed' = <<"not found">>
           ELSE /\ world' = updateTask(world, DescribedTask(task, options.text))
                /\ printed' = <<"Updated description">>
    /\ pc' = "done"
    /\ UNCHANGED <<config, command, localTasks, remoteTasks, tasksById,
                   latestTaskDirectories, allTasks, rendered, idVars, options, scanVars,
                   raceVars, cmdVars>>

\* the action of `task notes <taskId> <text>`
TaskNotes ==
    /\ pc = "notes_start"
    /\ options.command = "notes"
    /\ LET task == loadTask(world, options.taskId)
       IN  IF task = Null
           THEN world' = world /\ printed' = <<"not found">>
           ELSE /\ world' = updateTask(world, NotedTask(task, options.text))
                /\ printed' = <<"Updated implementation notes">>
    /\ pc' = "done"
    /\ UNCHANGED <<config, command, localTasks, remoteTasks, tasksById,
                   latestTaskDirectories, allTasks, rendered, idVars, options, scanVars,
                   raceVars, cmdVars>>

\* what the working copy can hold of one task id: nothing, a task, a draft
StoredShapes == {[kind |-> "none", description |-> <<>>],
                 [kind |-> "draft", description |-> <<DescriptionHeader, "Initial">>]}
                \cup [kind : {"active"}, description : Descriptions]

InitDescribe ==
    /\ config = Null
    /\ \E f \in [{<<1>>, <<2>>} -> StoredShapes] :
            world = {StoredTask(id, f[id].kind, f[id].description) :
                        id \in {x \in {<<1>>, <<2>>} : f[x].kind # "none"}}
    /\ \E cmd \in {"describe", "notes"} :
            /\ pc = IF cmd = "describe" THEN "describe_start" ELSE "notes_start"
            /\ options \in [command : {cmd}, taskId : TaskIdArgs, text : CommandTexts]
    /\ BoardIdle
    /\ IdIdle
    /\ ScanIdle
    /\ RaceIdle
    /\ printed = <<>>
    /\ exitCode = 0
    /\ before = world
    /\ env = [BACKLOG_EDITOR |-> Unset, VISUAL |-> Unset, EDITOR |-> Unset]
    /\ spawned = <<>>
    /\ viewRun = NoRun

NextDescribe == TaskDescribe \/ TaskNotes

SpecDescribe == InitDescribe /\ [][NextDescribe]_vars

\* the stored active task the command was given, before and after the command
TargetBefore == {c \in before : c.kind = "active" /\ c.id = options.taskId.segs}
TargetAfter == {c \in world : c.kind = "active" /\ c.id = options.taskId.segs}

\* C21: after task describe on an existing task, named with or without the
\* prefix, the exit status is 0, the stored description has the line
\* "## Description" and the new text in that section, and every other stored
\* file is as it was
C21_Describe ==
    (pc = "done" /\ options.command = "describe" /\ TargetBefore # {}) =>
        /\ exitCode = 0
        /\ \A c \in TargetAfter :
                /\ SectionStart(c.description, DescriptionHeader) > 0
                /\ options.text \in Range(SectionBody(c.description, DescriptionHeader))
        /\ Cardinality(TargetAfter) = 1
        /\ world \ TargetAfter = before \ TargetBefore

\* task-1 named as "1" is given a new description and task-2 is left alone
C21_Witness ==
    /\ pc = "done"
    /\ printed = <<"Updated description">>
    /\ options.command = "describe"
    /\ options.taskId = [prefixed |-> FALSE, segs |-> <<1>>]
    /\ StoredTask(<<1>>, "active", <<DescriptionHeader, "Initial">>) \in before
    /\ StoredTask(<<1>>, "active", <<DescriptionHeader, "Updated description">>) \in world
    /\ \E c \in world : c.id = <<2>> /\ c \in before

\* C22: after task notes on an existing task the exit status is 0 and the
\* stored description has an "## Implementation Notes" section that holds the
\* given text
C22_Notes ==
    (pc = "done" /\ options.command = "notes" /\ TargetBefore # {}) =>
        /\ exitCode = 0
        /\ TargetAfter # {}
        /\ \A c \in TargetAfter :
                options.text \in Range(SectionBody(c.description, NotesHeader))

\* the notes are added to a task that had a description and no notes
C22_Witness ==
    /\ pc = "done"
    /\ printed = <<"Updated implementation notes">>
    /\ options.command = "notes"
    /\ StoredTask(<<1>>, "active", <<DescriptionHeader, "Initial">>) \in before
    /\ StoredTask(<<1>>, "active",
                  <<DescriptionHeader, "Initial", NotesHeader, "Some notes">>) \in world

----------------------------------------------------------------------------
(* cli.ts: task create and task edit, options and dependencies              *)

\* new Date().toISOString().split("T")[0]: the day the command runs, later
\* than every date already stored
Today == MaxDate + 1

\* a task file of the working copy with the fields the two commands touch
TaskFile(id, kind) ==
    [place |-> LocalPlace, id |-> id, kind |-> kind, ts |-> 1, status |-> "To Do",
     updatedDate |-> 1, title |-> "Test", description |-> <<DescriptionHeader, "Initial">>,
     assignee |-> <<>>, labels |-> <<>>, dependencies |-> <<>>, priority |-> "none"]

\* an option of the command line that was given with this value
Given(v) == [set |-> TRUE, value |-> v]

\* one item of a --depends-on / --dep value after split(",") and trim: a task
\* id written with or without "task-", or the empty string
EmptyItem == [prefixed |-> FALSE, segs |-> <<>>]
DepItems == {[prefixed |-> FALSE, segs |-> <<1>>], [prefixed |-> TRUE, segs |-> <<2>>],
             [prefixed |-> TRUE, segs |-> <<3>>]}

DepItemPairs == {ab \in DepItems \X DepItems : ab[1] # ab[2]}

\* what commander collects for --depends-on and for --dep: undefined when the
\* flag is absent, else the array of the values of every use of the flag, a
\* value written here as the sequence of its comma-separated items
DepOptionValues ==
    {Unset}
    \cup {Given(<<(<<a>>)>>) : a \in DepItems}
    \cup {Given(<<(<<ab[1], ab[2]>>)>>) : ab \in DepItemPairs}
    \cup {Given(<<(<<ab[1]>>), (<<ab[2]>>)>>) : ab \in DepItemPairs}
    \cup {Given(<<(<<EmptyItem, a>>)>>) : a \in {[prefixed |-> TRUE, segs |-> <<2>>]}}

\* dependencies.flatMap((dep) => String(dep).split(",").map((d) => d.trim()))
RECURSIVE FlatMapSplit(_)
FlatMapSplit(values) ==
    IF values = <<>> THEN <<>> ELSE Head(values) \o FlatMapSplit(Tail(values))

\* dep.startsWith("task-") ? dep : `task-${dep}`
WithTaskPrefix(item) == item.segs

\* .filter(Boolean)
NonEmptyItem(item) == item # EmptyItem

\* .filter(Boolean).map(...) over the items
RECURSIVE NormalizeItems(_)
NormalizeItems(items) ==
    IF items = <<>> THEN <<>>
    ELSE (IF NonEmptyItem(Head(items)) THEN <<WithTaskPrefix(Head(items))>> ELSE <<>>)
         \o NormalizeItems(Tail(items))

normalizeDependencies(dependencies) ==
    IF ~dependencies.set THEN <<>> ELSE NormalizeItems(FlatMapSplit(dependencies.value))

\* options.dependsOn || options.dep: an array is truthy
DependencyOption(o) == IF o.dependsOn.set THEN o.dependsOn ELSE o.dep

\* new Set([...tasks.map((t) => t.id), ...drafts.map((d) => d.id)])
allTaskIds(w) == ListTasks(w) \cup ListDrafts(w)

validateDependencies(dependencies, w) ==
    [valid |-> SelectSeq(dependencies, LAMBDA dep : dep \in allTaskIds(w)),
     invalid |-> SelectSeq(dependencies, LAMBDA dep : dep \notin allTaskIds(w))]

validPriorities == {"high", "medium", "low"}

\* the task buildTaskFromOptions returns; a new task has no updatedDate (0)
buildTaskFromOptions(id, title, o) ==
    [place |-> LocalPlace, id |-> id, kind |-> "active", ts |-> 1,
     status |-> IF Truthy(o.status) THEN o.status.value ELSE "",
     updatedDate |-> 0, title |-> title,
     description |-> IF Truthy(o.description) THEN <<o.description.value>> ELSE <<>>,
     assignee |-> IF Truthy(o.assignee) THEN <<o.assignee.value>> ELSE <<>>,
     labels |-> IF o.label.set THEN o.label.value ELSE <<>>,
     dependencies |-> normalizeDependencies(DependencyOption(o)),
     priority |-> IF Truthy(o.priority) /\ ToLowerCase(o.priority.value) \in validPriorities
                  THEN ToLowerCase(o.priority.value) ELSE "none"]

\* core.createTask(task, true) and core.createDraft(task, true): the file of
\* the task is written under backlog/tasks, or under backlog/drafts
createTask(w, task) == w \cup {[task EXCEPT !.kind = "active"]}
createDraft(w, task) == w \cup {[task EXCEPT !.kind = "draft"]}

\* the action of `task create <title>`
TaskCreate ==
    /\ pc = "create_start"
    /\ options.command = "create"
    /\ LET id == NextIdFor(parent, ListTasks(world), ListDrafts(world), ScanBranches(world))
           task == buildTaskFromOptions(id, options.title.value, options)
           checked == validateDependencies(task.dependencies, world)
           final == [task EXCEPT !.dependencies = checked.valid]
       IN  /\ newId' = id
           /\ IF Len(task.dependencies) > 0 /\ Len(checked.invalid) > 0
              THEN /\ printed' = <<"Error: The following dependencies do not exist">>
                   /\ exitCode' = 1
                   /\ world' = world
              ELSE /\ printed' = <<"Created">>
                   /\ exitCode' = exitCode
                   /\ world' = IF options.draft THEN createDraft(world, final)
                                                ELSE createTask(world, final)
    /\ pc' = "done"
    /\ UNCHANGED <<config, command, localTasks, remoteTasks, tasksById,
                   latestTaskDirectories, allTasks, rendered, parent, failedCall,
                   gitFailed, allIds, options, scanVars, raceVars, before, env, spawned, viewRun>>

\* lines 528-539 and 552-576 of task edit: the fields set in memory before the
\* dependencies are looked at
EditFields(task, o) ==
    [task EXCEPT !.title = IF Truthy(o.title) THEN o.title.value ELSE @,
                 !.description = IF Truthy(o.description) THEN <<o.description.value>> ELSE @,
                 !.assignee = IF o.assignee.set THEN <<o.assignee.value>> ELSE @,
                 !.status = IF Truthy(o.status) THEN o.status.value ELSE @,
                 !.priority = IF Truthy(o.priority) THEN ToLowerCase(o.priority.value) ELSE @,
                 !.labels = IF o.label.set THEN o.label.value ELSE @,
                 !.updatedDate = Today]

\* the action of `task edit <taskId>`
TaskEdit ==
    /\ pc = "edit_start"
    /\ options.command = "edit"
    /\ LET task == loadTask(world, options.taskId)
           dependencies == normalizeDependencies(DependencyOption(options))
           checked == validateDependencies(dependencies, world)
       IN  IF task = Null
           THEN /\ printed' = <<"not found">>
                /\ UNCHANGED <<world, exitCode>>
           ELSE IF Truthy(options.priority)
                   /\ ToLowerCase(options.priority.value) \notin validPriorities
           THEN /\ printed' = <<"Invalid priority">>
                /\ UNCHANGED <<world, exitCode>>
           ELSE IF DependencyOption(options).set /\ Len(checked.invalid) > 0
           THEN /\ printed' = <<"Error: The following dependencies do not exist">>
                /\ exitCode' = 1
                /\ world' = world
           ELSE /\ printed' = <<"Updated task">>
                /\ exitCode' = exitCode
                /\ world' = updateTask(world,
                        IF DependencyOption(options).set
                        THEN [EditFields(task, options) EXCEPT !.dependencies = checked.valid]
                        ELSE EditFields(task, options))
    /\ pc' = "done"
    /\ UNCHANGED <<config, command, localTasks, remoteTasks, tasksById,
                   latestTaskDirectories, allTasks, rendered, idVars, options, scanVars,
                   raceVars, before, env, spawned, viewRun>>

\* the options besides priority and dependencies: none, a title, or all of them
OtherOptions ==
    {[title |-> Unset, description |-> Unset, assignee |-> Unset, status |-> Unset,
      label |-> Unset],
     [title |-> Given("New title"), description |-> Unset, assignee |-> Unset,
      status |-> Unset, label |-> Unset],
     [title |-> Given("New title"), description |-> Given("New text"),
      assignee |-> Given("alice"), status |-> Given("Done"), label |-> Given(<<"bug">>)]}

PriorityOptions == {Unset, Given("HIGH"), Given("urgent")}

\* the command lines of the two commands
CommandLines ==
    {[command |-> cmd, taskId |-> id, draft |-> d, title |-> x.title,
      description |-> x.description, assignee |-> x.assignee, status |-> x.status,
      label |-> x.label, priority |-> p, dependsOn |-> don, dep |-> dep] :
        cmd \in {"create", "edit"},
        id \in {[prefixed |-> FALSE, segs |-> <<1>>], [prefixed |-> TRUE, segs |-> <<2>>]},
        d \in BOOLEAN, x \in OtherOptions, p \in PriorityOptions,
        don \in DepOptionValues, dep \in DepOptionValues}

\* a task create command line carries a title and no task id; a task edit
\* command line has no --draft
WellFormed(o) ==
    IF o.command = "create"
    THEN o.taskId.segs = <<1>> /\ o.title.set
    ELSE ~o.draft

InitCommands ==
    /\ config = Null
    /\ \E f \in [{<<1>>, <<2>>} -> {"none", "active", "draft"}] :
            world = {TaskFile(id, f[id]) : id \in {x \in {<<1>>, <<2>>} : f[x] # "none"}}
    /\ options \in {o \in CommandLines : WellFormed(o)}
    /\ pc = IF options.command = "create" THEN "create_start" ELSE "edit_start"
    /\ BoardIdle
    /\ IdIdle
    /\ ScanIdle
    /\ RaceIdle
    /\ printed = <<>>
    /\ exitCode = 0
    /\ before = world
    /\ env = [BACKLOG_EDITOR |-> Unset, VISUAL |-> Unset, EDITOR |-> Unset]
    /\ spawned = <<>>
    /\ viewRun = NoRun

NextCommands == TaskCreate \/ TaskEdit

SpecCommands == InitCommands /\ [][NextCommands]_vars

\* every dependency id written on the command line, --depends-on first
GivenDependencies ==
    normalizeDependencies(options.dependsOn) \o normalizeDependencies(options.dep)

SomeDependencyMissing ==
    \E i \in 1..Len(GivenDependencies) : GivenDependencies[i] \notin allTaskIds(before)

\* C26: task create with a dependency id that names no local task or draft
\* writes nothing and sets exit code 1; when every dependency exists, one file
\* is written and it carries the given dependencies in the given order
C26_CreateDependencies ==
    (pc = "done" /\ options.command = "create") =>
        IF SomeDependencyMissing
        THEN world = before /\ exitCode = 1
        ELSE \E t \in world \ before :
                /\ world = before \cup {t}
                /\ t.id = newId
                /\ t.dependencies = GivenDependencies

\* C27: task edit writes nothing when the priority is not high, medium or low,
\* or when a given dependency id names no local task or draft
C27_EditWritesNothing ==
    (/\ pc = "done"
     /\ options.command = "edit"
     /\ \/ Truthy(options.priority) /\ ToLowerCase(options.priority.value) \notin validPriorities
        \/ SomeDependencyMissing)
        => world = before

----------------------------------------------------------------------------
(* cli.ts: board view and board export on the same repository               *)

\* handleBoardView loads the local and the remote tasks at once
ViewLoadAndMerge == command = "view" /\ BoardLoadAndMerge

\* board export: const localTasks = await core.listTasksWithMetadata() and the
\* map of the local tasks, before the remote tasks are asked for
ExportLoadLocal ==
    /\ pc = "start"
    /\ command = "export"
    /\ localTasks' \in Perms({RecordOf(c) : c \in LocalActiveCopies(world)})
    /\ tasksById' = LocalMap(localTasks')
    /\ pc' = "local_loaded"
    /\ UNCHANGED <<config, command, world, remoteTasks, latestTaskDirectories, allTasks,
                   rendered, idVars, listVars, scanVars, raceVars, cmdVars>>

\* board export: const remoteTasks = await loadRemoteTasks(...) and the merge loop
ExportLoadRemoteAndMerge ==
    /\ pc = "local_loaded"
    /\ command = "export"
    /\ remoteTasks' \in Perms(loadRemoteTasks(world, failedCall))
    /\ LET merged == MergeRemoteTasks(tasksById, remoteTasks', Statuses(config),
                                      ResolutionStrategy(config))
       IN  IF ConfigError \in Range(merged)
           THEN tasksById' = <<>> /\ pc' = "failed"
           ELSE tasksById' = merged /\ pc' = "merged"
    /\ UNCHANGED <<config, command, world, localTasks, latestTaskDirectories, allTasks,
                   rendered, idVars, listVars, scanVars, raceVars, cmdVars>>

\* board view has returned and board export is started in the same working
\* copy; what the view loaded and produced is kept for the comparison
BoardExportAfterView ==
    /\ pc = "done"
    /\ command = "view"
    /\ ~viewRun.ran
    /\ viewRun' = [ran |-> TRUE, localTasks |-> localTasks, remoteTasks |-> remoteTasks,
                   tasks |-> allTasks, called |-> rendered.called, passed |-> rendered.tasks]
    /\ command' = "export"
    /\ pc' = "start"
    /\ localTasks' = <<>>
    /\ remoteTasks' = <<>>
    /\ tasksById' = <<>>
    /\ latestTaskDirectories' = <<>>
    /\ allTasks' = <<>>
    /\ rendered' = NotRendered
    /\ UNCHANGED <<config, world, idVars, listVars, scanVars, raceVars, exitCode, before,
                   env, spawned>>

InitBoards ==
    /\ config \in BoardConfigs
    /\ \E S \in OfflineSlotSets : \E f \in [S -> CopyShapes] :
            world = {MkCopy(slot, f[slot]) : slot \in S}
    /\ pc = "start"
    /\ BoardIdle
    /\ IdIdle
    /\ ScanIdle
    /\ CmdIdle
    /\ RaceIdle
    /\ ListIdle

NextBoards ==
    \/ ViewLoadAndMerge
    \/ BoardResolve
    \/ BoardFilterAndRender
    \/ BoardExportAfterView
    \/ ExportLoadLocal
    \/ ExportLoadRemoteAndMerge
    \/ BoardFilterAndExport

SpecBoards == InitBoards /\ [][NextBoards]_vars

\* board export has finished after a board view that loaded the same local
\* and remote tasks
SameInputs ==
    /\ pc = "done"
    /\ command = "export"
    /\ viewRun.ran
    /\ localTasks = viewRun.localTasks
    /\ remoteTasks = viewRun.remoteTasks

\* C28: on the same local tasks, remote tasks, branch states, status order
\* and strategy, board export computes the final task list board view
\* computed, and the list it passes to exportKanbanBoardToFile is the list
\* board view passed to renderBoardTui
C28_SameFinalList ==
    SameInputs =>
        /\ allTasks = viewRun.tasks
        /\ rendered = [called |-> TRUE, tasks |-> allTasks]
        /\ viewRun.called => viewRun.passed = rendered.tasks

\* both commands ran on a task that a branch holds with another status, and
\* the board is not empty
C28_Witness ==
    /\ SameInputs
    /\ viewRun.called
    /\ Len(allTasks) >= 1
    /\ \E i \in 1..Len(localTasks) : \E j \in 1..Len(remoteTasks) :
            /\ localTasks[i].id = remoteTasks[j].id
            /\ localTasks[i].status # remoteTasks[j].status

====
